---- MODULE Spec2Model ----
(***************************************************************************)
(* The user controller of the gallery API: profile / theme / favorite      *)
(* listing handlers and the add / remove favorite handlers, over the       *)
(* Theme, Plugin, FavoriteTheme and FavoritePlugin tables.                  *)
(*                                                                         *)
(* A request occupies a slot.  The listing handlers make at most one       *)
(* database call and are one action each.  An add / remove handler makes   *)
(* several database calls inside one managed transaction; each call is a   *)
(* step, so that requests can interleave.  Writes of a transaction are     *)
(* buffered in the request and reach the tables when the transaction       *)
(* settles (commit), or are dropped (rollback).  A read sees the committed *)
(* tables (the engine's default isolation: the handlers pass no isolation  *)
(* level), a write waits for the row lock of another open transaction.     *)
(*                                                                         *)
(* The theme handlers touch only Theme / FavoriteTheme and the plugin      *)
(* handlers only Plugin / FavoritePlugin, with the same code up to the     *)
(* names.  A behaviour follows one of the two pairs of tables, `kind`.     *)
(***************************************************************************)
EXTENDS Integers, Sequences, FiniteSets, TLC

NumUsers == 2
NumEntities == 1
MaxConcurrent == 2

Users == 1..NumUsers
Entities == 1..NumEntities
Kinds == {"theme", "plugin"}
Slots == 1..MaxConcurrent

VARIABLES
    kind,            \* "theme" or "plugin": the pair of tables that is followed
    exists,          \* the ids of the rows of the Theme / Plugin table
    favorites,       \* favorites[u][e]: number of Favorite rows with userId u, id e
    favoritesCount,  \* favoritesCount[e]: the favoritesCount column of entity e
    reqs             \* reqs[r]: the request in slot r

vars == <<kind, exists, favorites, favoritesCount, reqs>>

-----------------------------------------------------------------------------
(* Values *)

\* req.query.userId: undefined, or a string ("" or the id of a user).
Undefined == [defined |-> FALSE, str |-> <<>>]
Str(s) == [defined |-> TRUE, str |-> s]
IdString(u) == <<u>>
QueryValues == {Undefined, Str(<<>>)} \cup {Str(IdString(u)) : u \in Users}

\* JavaScript truthiness of a string-or-undefined value.
Truthy(v) == v.defined /\ Len(v.str) > 0

NoBody == [data |-> "none", owner |-> 0, items |-> {}]
EmptyBody == [data |-> "empty", owner |-> 0, items |-> {}]

\* The tables as a request finds them.
NoSnapshot == [exists |-> {}, favorites |-> << >>, favoritesCount |-> << >>]
Snapshot == [exists |-> exists, favorites |-> favorites, favoritesCount |-> favoritesCount]

\* threw: "none", or the database call that threw ("unique": the insert of
\* a Favorite row whose key is taken).
Idle ==
    [handler |-> "none", user |-> 0, id |-> 0, admin |-> FALSE,
     query |-> Undefined, pc |-> "idle", pre |-> NoSnapshot,
     txIns |-> FALSE, txDel |-> FALSE, txDelta |-> 0,
     threw |-> "none", sent |-> << >>]

\* The owner of a theme (the userId column of Theme).
ThemeOwner(e) == ((e - 1) % NumUsers) + 1

-----------------------------------------------------------------------------
(* Response helpers: each call is recorded in the request's `sent`. *)

sendErrorResponse(q, status) ==
    [q EXCEPT !.sent = Append(@, [status |-> status, body |-> NoBody])]

sendSuccessResponse(q, status, body) ==
    [q EXCEPT !.sent = Append(@, [status |-> status, body |-> body])]

\* What the client receives: the first response written; the headers are
\* on the wire when a later call is made.
Response(q) == Head(q.sent)

-----------------------------------------------------------------------------
(* Authorization of the listing handlers *)

checkIsAdminUser(q) == q.admin

mayRetrieveAlways(q) == TRUE

\* !queryUserId || queryUserId === sessionUserId || checkIsAdminUser(userData)
mayRetrieve(q) ==
    \/ ~Truthy(q.query)
    \/ q.query = Str(IdString(q.user))
    \/ checkIsAdminUser(q)

-----------------------------------------------------------------------------
(* Database *)

Sum(f, S) ==
    LET RECURSIVE sum(_)
        sum(T) == IF T = {} THEN 0
                  ELSE LET x == CHOOSE y \in T : TRUE IN f[x] + sum(T \ {x})
    IN sum(S)

\* Number of Favorite rows in table fav that reference entity e.
RowCount(fav, e) == Sum([u \in Users |-> fav[u][e]], Users)

findByPk(e) == e \in exists

findOneAnyUser(u, e) == \E v \in Users : favorites[v][e] > 0

findOneNothing(u, e) == FALSE

\* Favorite.findOne({where: {userId, id}}): is there such a row
findOne(u, e) == favorites[u][e] > 0

incrementTwice(n) == n + 2

increment(n) == n + 1

decrementNot(n) == n

decrement(n) == n - 1

NoWrites == [ins |-> FALSE, del |-> FALSE, delta |-> 0]

Writes(q) == [ins |-> q.txIns, del |-> q.txDel, delta |-> q.txDelta]

SettleKeepsWrites(q, threw) == Writes(q)

\* The writes of q's transaction that reach the tables when it ends: all of
\* them when the callback returned, none when a call threw.
Settle(q, threw) == IF threw THEN NoWrites ELSE Writes(q)

\* The Favorite row (u, e) is locked by an open transaction other than r's.
RowLocked(r, u, e) ==
    \E s \in Slots \ {r} :
        /\ reqs[s].user = u /\ reqs[s].id = e
        /\ (reqs[s].txIns \/ reqs[s].txDel)

\* The entity row e is locked by an open transaction other than r's.
CounterLocked(r, e) ==
    \E s \in Slots \ {r} :
        /\ reqs[s].id = e
        /\ reqs[s].txDelta # 0

\* Slot r becomes q2 and the writes w of its transaction reach the tables.
Advance(r, q2, w) ==
    /\ reqs' = [reqs EXCEPT ![r] = q2]
    /\ IF w = NoWrites
       THEN UNCHANGED <<favorites, favoritesCount>>
       ELSE /\ favorites' =
                 [favorites EXCEPT ![q2.user][q2.id] =
                     @ + (IF w.ins THEN 1 ELSE 0) - (IF w.del THEN 1 ELSE 0)]
            /\ favoritesCount' =
                 [favoritesCount EXCEPT ![q2.id] = @ + w.delta]
    /\ UNCHANGED <<kind, exists>>

Closed(q) == [q EXCEPT !.txIns = FALSE, !.txDel = FALSE, !.txDelta = 0]

\* A database call of q's transaction threw (cause: the call, or "unique"):
\* the transaction ends and the handler's catch block runs next.
Throw(r, q, cause) ==
    Advance(r, [Closed(q) EXCEPT !.pc = "catch", !.threw = cause], Settle(q, TRUE))

Step(r, q2) == Advance(r, q2, NoWrites)

NewRequest(h, u, e) ==
    [Idle EXCEPT !.handler = h, !.user = u, !.id = e, !.pre = Snapshot]

Running(r, h, pc) ==
    /\ reqs[r].handler = h
    /\ reqs[r].pc = pc

-----------------------------------------------------------------------------
(* Transaction end and responses of the add / remove handlers *)

\* The callback returned: the managed transaction commits.
Commit(r, h) ==
    /\ Running(r, h, "commit")
    /\ \E ok \in BOOLEAN :
        IF ok
        THEN Advance(r, [Closed(reqs[r]) EXCEPT !.pc = "respond"], Settle(reqs[r], FALSE))
        ELSE Throw(r, reqs[r], "commit")

\* The sendSuccessResponse after the transaction.  When a response was sent
\* from inside the callback, writing a second one may throw into the catch.
Respond(r, h, status) ==
    /\ Running(r, h, "respond")
    /\ \E throws \in BOOLEAN :
        LET q2 == sendSuccessResponse(reqs[r], status, EmptyBody) IN
        /\ throws => Len(reqs[r].sent) > 0
        /\ Step(r, [q2 EXCEPT !.pc = IF throws THEN "catch" ELSE "done"])

\* catch (error) { Logger.error(...); sendErrorResponse(res, 500, ...) }
Catch(r, h) ==
    /\ Running(r, h, "catch")
    /\ Step(r, [sendErrorResponse(reqs[r], 500) EXCEPT !.pc = "done"])

-----------------------------------------------------------------------------
(* addUserFavoriteTheme / addUserFavoritePlugin *)

AddFindByPk(r, from) ==
    \E u \in Users, e \in Entities, ok \in BOOLEAN :
        LET q == [NewRequest("add", u, e) EXCEPT !.pc = "findByPk"] IN
        /\ reqs[r].pc \in from
        /\ IF ~ok THEN Throw(r, q, "findByPk")
           ELSE IF ~findByPk(e)
                THEN Step(r, [sendErrorResponse(q, 404) EXCEPT !.pc = "commit"])
                ELSE Step(r, [q EXCEPT !.pc = "findOne"])

AddFindOne(r) ==
    /\ Running(r, "add", "findOne")
    /\ LET q == reqs[r] IN
       \E ok \in BOOLEAN :
        IF ~ok THEN Throw(r, q, "findOne")
        ELSE IF findOne(q.user, q.id)
             THEN Step(r, [sendErrorResponse(q, 400) EXCEPT !.pc = "commit"])
             ELSE Step(r, [q EXCEPT !.pc = "create"])

\* The key (userId, id) of a Favorite row is unique: the insert fails
\* when the row is there.
UniqueViolation(u, e) == favorites[u][e] > 0

AddCreate(r) ==
    /\ Running(r, "add", "create")
    /\ LET q == reqs[r] IN
       /\ ~RowLocked(r, q.user, q.id)
       /\ \E ok \in BOOLEAN :
            IF ~ok THEN Throw(r, q, "create")
            ELSE IF UniqueViolation(q.user, q.id) THEN Throw(r, q, "unique")
            ELSE Step(r, [q EXCEPT !.txIns = TRUE, !.pc = "increment"])

AddIncrement(r) ==
    /\ Running(r, "add", "increment")
    /\ LET q == reqs[r] IN
       /\ ~CounterLocked(r, q.id)
       /\ \E ok \in BOOLEAN :
            IF ~ok THEN Throw(r, q, "increment")
            ELSE Step(r, [q EXCEPT !.txDelta = increment(@), !.pc = "commit"])

AddFavorite(r, from) ==
    \/ AddFindByPk(r, from)
    \/ AddFindOne(r)
    \/ AddCreate(r)
    \/ AddIncrement(r)
    \/ Commit(r, "add")
    \/ Respond(r, "add", 201)
    \/ Catch(r, "add")

addUserFavoriteTheme(r, from) == kind = "theme" /\ AddFavorite(r, from)

addUserFavoritePlugin(r, from) == kind = "plugin" /\ AddFavorite(r, from)

-----------------------------------------------------------------------------
(* removeUserFavoriteTheme / removeUserFavoritePlugin *)

RemoveFindOne(r, from) ==
    \E u \in Users, e \in Entities, ok \in BOOLEAN :
        LET q == [NewRequest("remove", u, e) EXCEPT !.pc = "findOne"] IN
        /\ reqs[r].pc \in from
        /\ IF ~ok THEN Throw(r, q, "findOne")
           ELSE IF ~findOne(u, e)
                THEN Step(r, [sendErrorResponse(q, 404) EXCEPT !.pc = "commit"])
                ELSE Step(r, [q EXCEPT !.pc = "destroy"])

\* existingFavorite.destroy(): deletes the row if it is (still) there.
RemoveDestroy(r) ==
    /\ Running(r, "remove", "destroy")
    /\ LET q == reqs[r] IN
       /\ ~RowLocked(r, q.user, q.id)
       /\ \E ok \in BOOLEAN :
            IF ~ok THEN Throw(r, q, "destroy")
            ELSE Step(r, [q EXCEPT !.txDel = favorites[q.user][q.id] > 0,
                                   !.pc = "findByPk"])

RemoveFindByPk(r) ==
    /\ Running(r, "remove", "findByPk")
    /\ LET q == reqs[r] IN
       \E ok \in BOOLEAN :
        IF ~ok THEN Throw(r, q, "findByPk")
        ELSE IF findByPk(q.id)
             THEN Step(r, [q EXCEPT !.pc = "decrement"])
             ELSE Step(r, [q EXCEPT !.pc = "commit"])

RemoveDecrement(r) ==
    /\ Running(r, "remove", "decrement")
    /\ LET q == reqs[r] IN
       /\ ~CounterLocked(r, q.id)
       /\ \E ok \in BOOLEAN :
            IF ~ok THEN Throw(r, q, "decrement")
            ELSE Step(r, [q EXCEPT !.txDelta = decrement(@), !.pc = "commit"])

RemoveFavorite(r, from) ==
    \/ RemoveFindOne(r, from)
    \/ RemoveDestroy(r)
    \/ RemoveFindByPk(r)
    \/ RemoveDecrement(r)
    \/ Commit(r, "remove")
    \/ Respond(r, "remove", 200)
    \/ Catch(r, "remove")

removeUserFavoriteTheme(r, from) == kind = "theme" /\ RemoveFavorite(r, from)

removeUserFavoritePlugin(r, from) == kind = "plugin" /\ RemoveFavorite(r, from)

-----------------------------------------------------------------------------
(* Listing handlers *)

GetRequest(h, u, admin, qv) ==
    [NewRequest(h, u, 0) EXCEPT !.admin = admin, !.query = qv, !.pc = "done"]

getUserProfile(r, from) ==
    \E u \in Users, admin \in BOOLEAN, qv \in QueryValues :
        LET q == GetRequest("getUserProfile", u, admin, qv) IN
        /\ reqs[r].pc \in from
        /\ IF mayRetrieve(q)
           THEN Step(r, sendSuccessResponse(q, 200,
                        [data |-> "userData", owner |-> u, items |-> {}]))
           ELSE Step(r, sendErrorResponse(q, 403))

UserThemes(u) == {e \in exists : ThemeOwner(e) = u}

UserFavorites(u) == {e \in Entities : favorites[u][e] > 0}

\* What the findAll of listing handler h returns for user u.
findAll(h, u) == IF h = "getUserThemes" THEN UserThemes(u) ELSE UserFavorites(u)

\* The shape shared by getUserThemes, getUserFavoriteThemes and
\* getUserFavoritePlugins: findAll inside try { } catch { }, then the 403.
Listing(r, from, h) ==
    \E u \in Users, admin \in BOOLEAN, qv \in QueryValues, ok \in BOOLEAN :
        LET q == GetRequest(h, u, admin, qv) IN
        /\ reqs[r].pc \in from
        /\ IF mayRetrieve(q)
           THEN IF ok
                THEN Step(r, sendSuccessResponse(q, 200,
                            [data |-> h, owner |-> u, items |-> findAll(h, u)]))
                ELSE Step(r, sendErrorResponse([q EXCEPT !.threw = "findAll"], 403))
           ELSE /\ ok
                /\ Step(r, sendErrorResponse(q, 403))

getUserThemes(r, from) ==
    kind = "theme" /\ Listing(r, from, "getUserThemes")

getUserFavoriteThemes(r, from) ==
    kind = "theme" /\ Listing(r, from, "getUserFavoriteThemes")

getUserFavoritePlugins(r, from) ==
    kind = "plugin" /\ Listing(r, from, "getUserFavoritePlugins")

-----------------------------------------------------------------------------
(* Environment: a Theme / Plugin row is deleted while Favorite rows that   *)
(* name it remain (the case removeUserFavorite* handles with `if (theme)`). *)

Quiescent == \A r \in Slots : reqs[r].pc \in {"idle", "done"}

deleteEntity ==
    \E e \in Entities :
        /\ Quiescent
        /\ e \in exists
        /\ exists' = exists \ {e}
        /\ UNCHANGED <<kind, favorites, favoritesCount, reqs>>

-----------------------------------------------------------------------------
(* Specifications *)

\* Empty Favorite tables.
Init ==
    /\ kind \in Kinds
    /\ exists = Entities
    /\ favorites = [u \in Users |-> [e \in Entities |-> 0]]
    /\ favoritesCount = [e \in Entities |-> 0]
    /\ reqs = [r \in Slots |-> Idle]

\* Any tables in which the counters match the rows.
InitConsistent ==
    /\ kind \in Kinds
    /\ exists = Entities
    /\ favorites \in [Users -> [Entities -> {0, 1}]]
    /\ favoritesCount = [e \in Entities |-> RowCount(favorites, e)]
    /\ reqs = [r \in Slots |-> Idle]

\* Requests executed one at a time: slot 1 takes the next request when the
\* previous one is done.
Serial == {"idle", "done"}

\* One request per slot.
Once == {"idle"}

\* Add / remove requests one at a time.
Next ==
    \/ addUserFavoriteTheme(1, Serial)
    \/ removeUserFavoriteTheme(1, Serial)
    \/ addUserFavoritePlugin(1, Serial)
    \/ removeUserFavoritePlugin(1, Serial)
    \/ deleteEntity

Spec == Init /\ [][Next]_vars

\* Listing requests one at a time.
NextListing ==
    \/ getUserProfile(1, Serial)
    \/ getUserThemes(1, Serial)
    \/ getUserFavoriteThemes(1, Serial)
    \/ getUserFavoritePlugins(1, Serial)

SpecListing == InitConsistent /\ [][NextListing]_vars

\* Concurrent add / remove requests.
NextConcurrent ==
    \E r \in Slots :
        \/ addUserFavoriteTheme(r, Once)
        \/ removeUserFavoriteTheme(r, Once)
        \/ addUserFavoritePlugin(r, Once)
        \/ removeUserFavoritePlugin(r, Once)

SpecConcurrent == InitConsistent /\ [][NextConcurrent]_vars

-----------------------------------------------------------------------------
(* Properties *)

AddRemove == {"add", "remove"}
Gets == {"getUserProfile", "getUserThemes", "getUserFavoriteThemes", "getUserFavoritePlugins"}

\* The request of the serial specifications.
Req == reqs[1]

Finished(q, hs) == q.pc = "done" /\ q.handler \in hs

\* A database call failed for a reason outside the handler.
DbFault(q) == q.threw \notin {"none", "unique"}

TablesUnchanged(q) ==
    /\ favorites = q.pre.favorites
    /\ favoritesCount = q.pre.favoritesCount

Own(q) == Str(IdString(q.user))

-----------------------------------------------------------------------------
(* C1: with requests executed one at a time, the favoritesCount of every   *)
(* existing Theme / Plugin equals the number of Favorite rows that          *)
(* reference it.                                                            *)
CountersMatchRows ==
    \A e \in exists : favoritesCount[e] = RowCount(favorites, e)

\* A remove has succeeded and an entity still has favorites.
CountersMatchRowsWitness ==
    /\ Finished(Req, {"remove"})
    /\ Req.threw = "none"
    /\ Response(Req).status = 200
    /\ \E e \in exists : favoritesCount[e] >= 1

(* C2: when a database call of an add / remove transaction throws, the     *)
(* tables are as the request found them; and in every committed state a    *)
(* Favorite row of an existing entity has changed exactly when the          *)
(* entity's counter has.                                                    *)
RollbackLeavesTables ==
    \A r \in Slots :
        LET q == reqs[r] IN
        q.handler \in AddRemove =>
            /\ q.threw # "none" => TablesUnchanged(q)
            /\ \A e \in Entities :
                LET rowChanged == \E u \in Users : favorites[u][e] # q.pre.favorites[u][e]
                    countChanged == favoritesCount[e] # q.pre.favoritesCount[e]
                IN /\ countChanged => rowChanged
                   /\ rowChanged /\ e \in q.pre.exists => countChanged

\* The increment threw after the Favorite row was inserted.
RollbackWitness ==
    /\ Finished(Req, {"add"})
    /\ Req.threw = "increment"

(* C3: however the steps of concurrent add / remove requests interleave,   *)
(* once they are all done the counters equal the numbers of rows and no    *)
(* (user, entity) pair has two Favorite rows.                               *)
ConcurrentRequestsSerialized ==
    Quiescent =>
        \A e \in exists :
            /\ favoritesCount[e] = RowCount(favorites, e)
            /\ \A u \in Users : favorites[u][e] <= 1

(* C4: an add by a user who already has the Favorite row of an existing    *)
(* entity changes no table, and is answered 400 unless the database fails. *)
SecondAddIs400 ==
    /\ Finished(Req, {"add"})
    /\ Req.id \in Req.pre.exists
    /\ Req.pre.favorites[Req.user][Req.id] > 0
    => /\ TablesUnchanged(Req)
       /\ ~DbFault(Req) => Response(Req).status = 400

SecondAddWitness ==
    /\ Finished(Req, {"add"})
    /\ Req.id \in Req.pre.exists
    /\ Req.pre.favorites[Req.user][Req.id] > 0
    /\ Response(Req).status = 400

(* C5: a remove by a user who has no Favorite row for the id changes no    *)
(* table, and is answered 404 unless the database fails.                    *)
RemoveMissingIs404 ==
    /\ Finished(Req, {"remove"})
    /\ Req.pre.favorites[Req.user][Req.id] = 0
    => /\ TablesUnchanged(Req)
       /\ ~DbFault(Req) => Response(Req).status = 404

\* The user has no row, another user has one.
RemoveMissingWitness ==
    /\ Finished(Req, {"remove"})
    /\ Req.pre.favorites[Req.user][Req.id] = 0
    /\ \E v \in Users : Req.pre.favorites[v][Req.id] > 0
    /\ Response(Req).status = 404

(* C6: an add or a remove whose id names no existing Theme / Plugin        *)
(* changes no table, and is answered 404 unless the database fails.         *)
MissingEntityIs404 ==
    /\ Finished(Req, AddRemove)
    /\ Req.id \notin Req.pre.exists
    => /\ TablesUnchanged(Req)
       /\ ~DbFault(Req) => Response(Req).status = 404

(* C7: a listing request is answered 403, without data, when its userId    *)
(* parameter is a non-empty string other than the session user's id and    *)
(* the user is no admin; otherwise it is answered 200 when the lookup       *)
(* succeeds.                                                                *)
ForeignRequestIs403 ==
    Finished(Req, Gets) =>
        IF Truthy(Req.query) /\ Req.query # Own(Req) /\ ~Req.admin
        THEN Response(Req) = [status |-> 403, body |-> NoBody]
        ELSE Req.threw = "none" =>
                /\ Response(Req).status = 200
                /\ Response(Req).body.owner = Req.user

ForeignRequestWitness ==
    /\ Finished(Req, {"getUserFavoriteThemes"})
    /\ Truthy(Req.query) /\ Req.query # Own(Req) /\ ~Req.admin
    /\ Response(Req).status = 403

\* C7 as stated: 403 whenever the parameter is present, differs from the
\* session user's id and the user is no admin.
PresentForeignRequestIs403 ==
    Finished(Req, Gets) =>
        (Req.query.defined /\ Req.query # Own(Req) /\ ~Req.admin
            => Response(Req).status = 403)

(* C8: a request during which a database call threw is answered 500.       *)
ExceptionIs500 ==
    Finished(Req, Gets \cup AddRemove) /\ Req.threw # "none"
        => Response(Req).status = 500

ExactlyOneResponse ==
    Finished(Req, AddRemove) => Len(Req.sent) = 1

====
